---- MODULE Spec2Model ----
(***************************************************************************)
(* The decide / execute / record loop of night-assistant: the main agent   *)
(* (management/commands/run_agent.py), the sub-agents built on             *)
(* BaseSubAgent (base_subagent.py, run_post_agent.py,                      *)
(* run_tutorial_agent.py), the AgentMemory table they share and the        *)
(* delegation capabilities of plugins/__init__.py.                         *)
(*                                                                         *)
(* Python values are modelled as follows.  A dict is a function from its   *)
(* keys; a missing key is a key outside the DOMAIN.  None is the record    *)
(* [t |-> "None"].  An action result carries its Python type in the field  *)
(* t next to the keys of the dict it stands for.  An action name is a      *)
(* string; the token "None" is Python's None and "[list]" is a JSON array  *)
(* (an unhashable value) in the place of the name.                         *)
(***************************************************************************)
EXTENDS Integers, Sequences, FiniteSets, TLC

VARIABLES
    mem,      \* the AgentMemory table: rows indexed by their AutoField id; next to
              \* its columns a row keeps its history: the run and agent that
              \* appended it, and how often it was invoked and updated
    clock,    \* wall clock in seconds; only time.sleep is known to advance it
    stack,    \* call stack of running loops: main at 1, a delegated loop above it
    runs,     \* number of loop runs started so far
    coercion  \* a call of _convert_parameter_types taken by itself: its args,
              \* its method_spec and, once it is over, its outcome

vars == <<mem, clock, stack, runs, coercion>>

(***************************************************************************)
(* Bounds of the model.                                                    *)
(***************************************************************************)
MaxMem == 3          \* rows the table may hold
MaxFairMem == 2      \* rows the table may hold in the behaviours checked for progress

(***************************************************************************)
(* Program constants.                                                      *)
(***************************************************************************)
SleepTicks == 1      \* time.sleep(1) after every executed action

None == [t |-> "None"]

\* No call of _convert_parameter_types is looked at.
NoCoercion == [args |-> <<>>, method_spec |-> <<>>, out |-> None]

Get(d, k, default) == IF k \in DOMAIN d THEN d[k] ELSE default

SetKey(d, k, v) == [x \in DOMAIN d \cup {k} |-> IF x = k THEN v ELSE d[x]]

IsDict(v) == Get(v, "t", "dict") = "dict"

(***************************************************************************)
(* Agents, their memory scope and their registries.                        *)
(***************************************************************************)
Agents == {"main", "post", "tutorial"}

SubAgents == {"post", "tutorial"}

\* The value a row gets in agent_type when create() is given none.
DefaultAgentType == "default"

AGENT_TYPE(agent) == IF agent = "main" THEN DefaultAgentType ELSE agent

AGENT_NAME(agent) ==
    CASE agent = "post" -> "PostAgent"
      [] agent = "tutorial" -> "TutorialAgent"
      [] OTHER -> "main"

get_available_methods(agent) ==
    CASE agent = "main" ->
            {"get_top_bounce_urls", "get_post_by_slug", "get_tutorial_by_slug",
             "delegate_to_post_agent", "delegate_to_tutorial_agent"}
      [] agent = "post" ->
            {"get_post_details", "update_post_content", "get_post_categories",
             "analyze_post_quality"}
      [] OTHER ->
            {"get_tutorial_details", "update_tutorial_content",
             "get_tutorial_categories", "analyze_tutorial_structure",
             "check_tutorial_prerequisites"}

\* A registry shared by every loop instead of one per loop.
method_dict_shared(agent) ==
    get_available_methods("main") \cup get_available_methods("post")
        \cup get_available_methods("tutorial")

\* self.method_dict, built by run_agent / handle from the agent's own plugins.
method_dict(agent) == get_available_methods(agent)

Delegate(action) ==
    CASE action = "delegate_to_post_agent" -> "post"
      [] action = "delegate_to_tutorial_agent" -> "tutorial"
      [] OTHER -> "none"

Hashable(action) == action # "[list]"

(***************************************************************************)
(* The memory table.                                                       *)
(***************************************************************************)
\* The newest row first.
RECURSIVE order_by_created_at_desc(_, _)
order_by_created_at_desc(m, S) ==
    IF S = {} THEN <<>>
    ELSE LET first == CHOOSE i \in S : \A j \in S : m[i].created_at >= m[j].created_at
         IN  <<first>> \o order_by_created_at_desc(m, S \ {first})

RECURSIVE order_by_created_at(_, _)
order_by_created_at(m, S) ==
    IF S = {} THEN <<>>
    ELSE LET first == CHOOSE i \in S : \A j \in S : m[i].created_at <= m[j].created_at
         IN  <<first>> \o order_by_created_at(m, S \ {first})

filter_agent_type(m, scope) == {i \in 1..Len(m) : m[i].agent_type = scope}

\* Row ids, in the order the loop of `agent` reads them.
get_previous_memories(m, agent) ==
    IF agent = "main"
    THEN order_by_created_at(m, 1..Len(m))
    ELSE order_by_created_at(m, filter_agent_type(m, AGENT_TYPE(agent)))

\* AgentMemory.objects.create: `by` and `run` are the appending loop.
NewRow(m, scope, decision, now, by, run) ==
    [id |-> Len(m) + 1, agent_type |-> scope, value |-> decision,
     created_at |-> now, updated_at |-> now,
     by |-> by, run |-> run, invoked |-> 0, updates |-> 0]

\* A sub-agent that appends without its agent_type.
save_decision_unscoped(m, agent, decision, now, run) ==
    Append(m, NewRow(m, DefaultAgentType, decision, now, agent, run))

\* A decision appended twice.
save_decision_twice(m, agent, decision, now, run) ==
    LET once == Append(m, NewRow(m, AGENT_TYPE(agent), decision, now, agent, run))
    IN  Append(once, NewRow(once, AGENT_TYPE(agent), decision, now, agent, run))

save_decision_to_memory(m, agent, decision, now, run) ==
    IF agent = "main"
    THEN Append(m, NewRow(m, DefaultAgentType, decision, now, agent, run))
    ELSE Append(m, NewRow(m, AGENT_TYPE(agent), decision, now, agent, run))

\* An update that never reaches the table.
update_memory_skipped(m, id, result, now) == m

\* An update that stores the result in place of the decision.
update_memory_replacing_value(m, id, result, now) ==
    [m EXCEPT ![id] = [@ EXCEPT !.value = [result |-> result],
                                !.updated_at = now,
                                !.updates = @ + 1]]

\* _update_memory_with_result: a copy of the value with the result merged in.
update_memory_with_result(m, id, result, now) ==
    [m EXCEPT ![id] = [@ EXCEPT !.value = SetKey(@, "result", result),
                                !.updated_at = now,
                                !.updates = @ + 1]]

(***************************************************************************)
(* Prompt rendering.                                                       *)
(***************************************************************************)
format_memory_result(result) ==
    IF result.t = "dict" /\ "error" \in DOMAIN result
    THEN [mark |-> "error", text |-> result.error]
    ELSE [mark |-> "success", text |-> result]

format_single_memory(idx, memory) ==
    LET result == Get(memory, "result", None)
    IN  [idx |-> idx,
         action |-> Get(memory, "action", "N/A"),
         args |-> Get(memory, "args", "{}"),
         reason |-> Get(memory, "reason", "N/A"),
         outcome |-> IF result # None THEN format_memory_result(result)
                     ELSE [mark |-> "pending", text |-> None]]

\* The empty string.
NoSection == [block |-> FALSE, entries |-> <<>>]

\* A section rendered with its heading whatever the memories.
format_memory_section_always(memories) ==
    [block |-> TRUE,
     entries |-> [idx \in 1..Len(memories) |-> format_single_memory(idx, memories[idx])]]

\* _format_memory_section: "" without memories, else heading, entries, closing line.
format_memory_section(memories) ==
    IF memories = <<>> THEN NoSection
    ELSE [block |-> TRUE,
          entries |-> [idx \in 1..Len(memories) |-> format_single_memory(idx, memories[idx])]]

\* _build_prompt: the {memory} slot is there only for a non-empty section.
build_prompt(agent, state, memory_section) ==
    [persona |-> AGENT_NAME(agent), methods |-> agent, state |-> state,
     block |-> memory_section # NoSection,
     memory |-> IF memory_section # NoSection THEN memory_section.entries ELSE <<>>]

RenderPrompt(m, agent, state) ==
    LET ids == get_previous_memories(m, agent)
        memories == [i \in 1..Len(ids) |-> m[ids[i]].value]
    IN  build_prompt(agent, state, format_memory_section(memories))

(***************************************************************************)
(* Results of actions.                                                     *)
(***************************************************************************)
NotFoundError(action) == [t |-> "dict", error |-> <<"Metodo", action, "non trovato">>]

\* An error result that drops the message of the exception.
RaisedErrorNoMessage(msg) == [t |-> "dict", error |-> <<"errore">>]

RaisedError(msg) == [t |-> "dict", error |-> <<msg>>]

\* What a capability that is no delegation may return.
CapabilityReturns == {[t |-> "value", v |-> "v"], None}

\* A Post or Tutorial row as the ORM hands it out: no JSON value.
ModelInstance == [t |-> "object"]

\* get_post_by_slug and get_tutorial_by_slug return the model instance they
\* find, or None; get_top_bounce_urls always returns a list; the other
\* capabilities return JSON values or None.
Returns(action) ==
    CASE action \in {"get_post_by_slug", "get_tutorial_by_slug"} -> {ModelInstance, None}
      [] action = "get_top_bounce_urls" -> CapabilityReturns \ {None}
      [] OTHER -> CapabilityReturns

\* Whether memory_record.save() can encode the value for the JSON column.
json_serializable(v) == v # ModelInstance

\* str(e) of what a capability may raise.
CapabilityFaults == {"fault"}

(***************************************************************************)
(* The oracle.  A reply is what generate_json hands back: a decoded JSON   *)
(* value, or an LLMException.  A decision is a dict with any subset of    *)
(* the keys action, args, reason and stop.                                 *)
(***************************************************************************)
ActionChoices(agent) ==
    CASE agent = "main" ->
            {"get_top_bounce_urls", "get_post_by_slug", "delegate_to_post_agent",
             "delegate_to_tutorial_agent", "get_post_details", "[list]"}
      [] agent = "post" -> {"get_post_details", "get_top_bounce_urls", "[list]"}
      [] OTHER -> {"get_tutorial_details", "get_post_details", "[list]"}

\* Decisions with keys missing: one with a reason and nothing else for every
\* loop, and for the post sub-agent one with nothing but a registered action.
PartialDecisions(agent) ==
    {[reason |-> "r"]}
    \cup (IF agent = "post" THEN {[action |-> "get_post_details"]} ELSE {})

OracleDecisions(agent) ==
    {[action |-> a, args |-> "{slug}", reason |-> "r", stop |-> s] :
        a \in ActionChoices(agent), s \in BOOLEAN}
    \cup PartialDecisions(agent)

NonDictValues == {[t |-> "list"], [t |-> "str"], [t |-> "number"]}

OracleReplies(agent) ==
    {[kind |-> "LLMException"]}
    \cup {[kind |-> "value", v |-> d] : d \in OracleDecisions(agent) \cup NonDictValues}

\* The LLMException of an attempt that did not reach the backing model.
TransportFailure == [kind |-> "LLMException", cause |-> "transport"]

\* What one attempt of a decide call may end in.
AttemptOutcomes(agent) == OracleReplies(agent) \cup {TransportFailure}

max_retries == 3

\* A wrapper that never gives up.
never_last_attempt(attempt) == FALSE

\* retry: for attempt in range(1, max_retries + 1); after the last attempt
\* the exception is raised to the caller.
last_attempt(attempt) == attempt >= max_retries

\* A wrapper that tries again after any LLMException.
RetriedAlways(outcome) == outcome.kind = "LLMException"

\* The failures of an attempt that the decide call answers with a new attempt.
Retried(outcome) == outcome = TransportFailure

\* What the raw-text fallback request may do: hand back text, or fail too.
RawReplies == {"text", "failed"}

\* The reply taken as the decision whatever its type.
get_llm_decision_unchecked(reply) ==
    IF reply.kind = "LLMException" THEN [raised |-> TRUE, error |-> "LLMException"]
    ELSE [raised |-> FALSE, decision |-> reply.v]

\* _get_llm_decision: the reply of generate_json, or LLMException.
get_llm_decision(reply) ==
    IF reply.kind = "LLMException" THEN [raised |-> TRUE, error |-> "LLMException"]
    ELSE IF ~IsDict(reply.v) THEN [raised |-> TRUE, error |-> "Decisione non e dict"]
    ELSE [raised |-> FALSE, decision |-> reply.v]

\* Details read without defaults: a missing key is None.
decision_details_no_default(decision) ==
    [action |-> Get(decision, "action", "None"),
     args |-> Get(decision, "args", "None"),
     reason |-> Get(decision, "reason", "None")]

\* decision.get('action'), decision.get('args', {}), decision.get('reason', 'N/A').
decision_details(decision) ==
    [action |-> Get(decision, "action", "None"),
     args |-> Get(decision, "args", "{}"),
     reason |-> Get(decision, "reason", "N/A")]

\* A loop that never looks at the stop flag.
StopIgnored(decision) == FALSE

\* decision.get("stop") as a condition.
StopRequested(decision) == IF "stop" \in DOMAIN decision THEN decision.stop ELSE FALSE

(***************************************************************************)
(* Loop frames.                                                            *)
(***************************************************************************)
\* A loop that starts with a state left over from somewhere else.
NewFrameWithState(agent, run) ==
    [agent |-> agent, run |-> run, pc |-> "AWAITING_DECISION",
     state |-> [t |-> "value", v |-> "v"],
     decision |-> None, rec |-> 0, result |-> None,
     prompt |-> None, prev |-> <<>>, requests |-> 0, decided |-> <<>>,
     reply |-> None, attempts |-> 0, caught |-> None, fault |-> "", error |-> "",
     details |-> None, sub_end |-> "",
     raw_requests |-> 0, raw_prompt |-> None, raw_reply |-> "", raw_surfaced |-> FALSE]

\* run_agent: state = None, and nothing decided, saved or asked yet.
NewFrame(agent, run) ==
    [agent |-> agent, run |-> run, pc |-> "AWAITING_DECISION", state |-> None,
     decision |-> None, rec |-> 0, result |-> None,
     prompt |-> None, prev |-> <<>>, requests |-> 0, decided |-> <<>>,
     reply |-> None, attempts |-> 0, caught |-> None, fault |-> "", error |-> "",
     details |-> None, sub_end |-> "",
     raw_requests |-> 0, raw_prompt |-> None, raw_reply |-> "", raw_surfaced |-> FALSE]

Depth == Len(stack)

Top == stack[Depth]

SetTop(f) == [stack EXCEPT ![Depth] = f]

Terminal == {"STOPPED", "FAILED", "CRASHED"}

Init ==
    /\ mem = <<>>
    /\ clock = 0
    /\ stack = <<NewFrame("main", 1)>>
    /\ runs = 1
    /\ coercion = NoCoercion

\* _handle_llm_error: one raw-text request with the prompt of the failed call.
handle_llm_error(f, prompt, error, raw) ==
    [f EXCEPT !.pc = "FAILED", !.error = error,
              !.raw_requests = @ + 1, !.raw_prompt = prompt, !.raw_reply = raw,
              !.raw_surfaced = (raw = "text")]

\* An attempt of the decide call that fails and is not the last one: the
\* failure is caught and the next attempt follows at once.
RetryAttempt ==
    /\ Top.pc = "AWAITING_DECISION"
    /\ ~last_attempt(Top.attempts + 1)
    /\ \E outcome \in AttemptOutcomes(Top.agent) :
         /\ Retried(outcome)
         /\ stack' = SetTop([Top EXCEPT !.attempts = @ + 1, !.caught = outcome])
    /\ UNCHANGED <<mem, clock, runs, coercion>>

\* The head of an iteration: read memory, render the prompt, ask the oracle,
\* and leave on stop or on LLMException.  The attempt taken here ends the
\* decide call: a failure that would be retried ends it on the last attempt only.
Decide ==
    /\ Top.pc = "AWAITING_DECISION"
    /\ \E reply \in AttemptOutcomes(Top.agent), raw \in RawReplies :
         LET f == [Top EXCEPT !.prev = get_previous_memories(mem, Top.agent),
                              !.prompt = RenderPrompt(mem, Top.agent, Top.state),
                              !.requests = @ + 1, !.reply = reply,
                              !.attempts = 0, !.caught = None]
             got == get_llm_decision(reply)
         IN  /\ Retried(reply) => last_attempt(Top.attempts + 1)
             /\ IF got.raised
                THEN stack' = SetTop(handle_llm_error(f, f.prompt, got.error, raw))
                ELSE /\ raw = "text"
                     /\ IF StopRequested(got.decision)
                        THEN stack' = SetTop([f EXCEPT !.pc = "STOPPED",
                                                       !.decision = got.decision])
                        ELSE /\ Len(mem) < MaxMem
                             /\ stack' = SetTop([f EXCEPT !.pc = "DECIDED",
                                                          !.decision = got.decision,
                                                          !.details = decision_details(got.decision),
                                                          !.decided = Append(@, got.decision)])
    /\ UNCHANGED <<mem, clock, runs, coercion>>

\* _save_decision_to_memory, before the action is looked up.
Save ==
    /\ Top.pc = "DECIDED"
    /\ mem' = save_decision_to_memory(mem, Top.agent, Top.decision, clock, Top.run)
    /\ stack' = SetTop([Top EXCEPT !.pc = "EXECUTING", !.rec = Len(mem) + 1,
                                   !.fault = ""])
    /\ UNCHANGED <<clock, runs, coercion>>

\* _execute_action up to the result: look the action up, call the capability.
\* An unhashable action makes the lookup raise TypeError outside every try.
Execute ==
    /\ Top.pc = "EXECUTING"
    /\ LET action == Get(Top.decision, "action", "None")
           invoked == [mem EXCEPT ![Top.rec].invoked = @ + 1]
       IN  IF ~Hashable(action)
           THEN /\ stack' = SetTop([Top EXCEPT !.pc = "CRASHED", !.error = "TypeError"])
                /\ UNCHANGED <<mem, runs>>
           ELSE IF action \notin method_dict(Top.agent)
           THEN /\ stack' = SetTop([Top EXCEPT !.pc = "RECORDED",
                                               !.result = NotFoundError(action)])
                /\ UNCHANGED <<mem, runs>>
           ELSE IF Delegate(action) = "none"
           THEN /\ \/ \E v \in Returns(action) :
                        stack' = SetTop([Top EXCEPT !.pc = "RECORDED", !.result = v])
                   \/ \E e \in CapabilityFaults :
                        stack' = SetTop([Top EXCEPT !.pc = "RECORDED", !.fault = e,
                                                    !.result = RaisedError(e)])
                /\ mem' = invoked
                /\ UNCHANGED runs
           ELSE \/ /\ stack' = SetTop([Top EXCEPT !.pc = "RECORDED", !.fault = "TypeError",
                                                  !.result = RaisedError("TypeError")])
                   /\ mem' = invoked
                   /\ UNCHANGED runs
                \/ /\ stack' = Append(SetTop([Top EXCEPT !.pc = "BLOCKED"]),
                                      NewFrame(Delegate(action), runs + 1))
                   /\ runs' = runs + 1
                   /\ mem' = invoked
    /\ UNCHANGED <<clock, coercion>>

\* The tail of _execute_action: _update_memory_with_result, and the result
\* becomes the loop's state.  A save() that cannot encode the result raises
\* TypeError inside the try: the except clause stores and returns the error.
Record ==
    /\ Top.pc = "RECORDED"
    /\ LET state == IF json_serializable(Top.result) THEN Top.result
                    ELSE RaisedError("TypeError")
       IN  /\ mem' = update_memory_with_result(mem, Top.rec, state, clock)
           /\ stack' = SetTop([Top EXCEPT !.pc = "THROTTLE", !.result = state,
                                          !.state = state])
    /\ UNCHANGED <<clock, runs, coercion>>

\* time.sleep(1), then the next iteration.
Sleep ==
    /\ Top.pc = "THROTTLE"
    /\ clock' = clock + SleepTicks
    /\ stack' = SetTop([Top EXCEPT !.pc = "AWAITING_DECISION", !.sub_end = ""])
    /\ UNCHANGED <<mem, runs, coercion>>

\* A summary that never looks at the table.
SummaryWithoutRecord(m, agent) ==
    [t |-> "dict", success |-> TRUE, agent |-> AGENT_NAME(agent),
     message |-> "Completato senza memoria finale"]

\* execute() after run_agent: the newest row of the sub-agent's scope.
Summary(m, agent) ==
    LET ids == get_previous_memories(m, agent)
    IN  IF Len(ids) > 0 /\ DOMAIN m[ids[Len(ids)]].value # {}
        THEN [t |-> "dict", success |-> TRUE, agent |-> AGENT_NAME(agent),
              last_action |-> m[ids[Len(ids)]].value]
        ELSE [t |-> "dict", success |-> TRUE, agent |-> AGENT_NAME(agent),
              message |-> "Completato senza memoria finale"]

\* A delegation that hides a fault of its sub-loop behind a summary.
delegate_result_masking(m, sub) == Summary(m, sub.agent)

\* A delegation that reports the failure of its sub-loop as its own.
delegate_result_failing(m, sub) ==
    IF sub.pc \in {"CRASHED", "FAILED"}
    THEN [t |-> "dict", success |-> FALSE, error |-> <<sub.error>>,
          agent |-> AGENT_NAME(sub.agent)]
    ELSE Summary(m, sub.agent)

\* delegate_to_post_agent / delegate_to_tutorial_agent once the sub-loop is over.
delegate_result(m, sub) ==
    IF sub.pc = "CRASHED"
    THEN [t |-> "dict", success |-> FALSE, error |-> <<sub.error>>,
          agent |-> AGENT_NAME(sub.agent)]
    ELSE Summary(m, sub.agent)

\* A delegation whose caller is never resumed.
ReturnNever == FALSE /\ UNCHANGED vars

\* The sub-loop is over: execute() returns and the delegation hands its
\* result to the parent's _execute_action.
Return ==
    /\ Depth > 1
    /\ Top.pc \in Terminal
    /\ stack' = <<[stack[1] EXCEPT !.pc = "RECORDED", !.sub_end = Top.pc,
                                   !.result = delegate_result(mem, Top)]>>
    /\ UNCHANGED <<mem, clock, runs, coercion>>

Next == RetryAttempt \/ Decide \/ Save \/ Execute \/ Record \/ Sleep \/ Return

Spec == Init /\ [][Next]_vars

\* A step that leaves at most MaxFairMem rows in the table, and room for the
\* row of the decision it takes.
Fits(step) ==
    /\ step
    /\ Len(mem') <= MaxFairMem
    /\ stack'[Len(stack')].pc = "DECIDED" => Len(mem') < MaxFairMem

\* The steps of the program while the table holds at most MaxFairMem rows.
FairNext ==
    \/ Fits(RetryAttempt)
    \/ Fits(Decide)
    \/ Fits(Save)
    \/ Fits(Execute)
    \/ Fits(Record)
    \/ Fits(Sleep)
    \/ Fits(Return)

\* Every call the running loop makes returns: the oracle, the table, the
\* capability, the sleep.  One loop runs at a time, so a step of the program
\* is always a step of the innermost loop.
FairSpec == Init /\ [][FairNext]_vars /\ WF_vars(FairNext)

TypeOK ==
    /\ Depth \in 1..2
    /\ Len(mem) <= MaxMem
    /\ \A i \in 1..Len(mem) : mem[i].id = i

(***************************************************************************)
(* Parameter conversion, taken by itself.  A value is a decoded JSON value  *)
(* tagged with its Python type; a conversion hands back a value or raises.  *)
(***************************************************************************)
StrV(s) == [t |-> "str", v |-> s]

IntV(n) == [t |-> "int", v |-> n]

\* An integer too large for a float, as a JSON number of 400 digits decodes to.
HugeInt == [t |-> "int", huge |-> TRUE]

\* A float, by its tenths.
FloatV(tenths) == [t |-> "float", tenths |-> tenths]

\* float('inf'), as the JSON number 1e999 decodes to.
Infinity == [t |-> "float", inf |-> TRUE]

BoolV(b) == [t |-> "bool", v |-> b]

ListV(items) == [t |-> "list", v |-> items]

Ok(v) == [ok |-> TRUE, v |-> v]

Raise(exc) == [ok |-> FALSE, exc |-> exc]

Texts == {"12", "abc", "a, b, c", "[1, 2]", "{\"a\": 1}", "{bad", "True"}

\* The texts a split may leave.
Pieces == {"a", "b", "c"}

Chars(s) ==
    CASE s = "12" -> <<"1", "2">>
      [] s = "abc" -> <<"a", "b", "c">>
      [] s = "a, b, c" -> <<"a", ",", " ", "b", ",", " ", "c">>
      [] s = "[1, 2]" -> <<"[", "1", ",", " ", "2", "]">>
      [] s = "{\"a\": 1}" -> <<"{", "\"", "a", "\"", ":", " ", "1", "}">>
      [] s = "{bad" -> <<"{", "b", "a", "d">>
      [] s = "True" -> <<"T", "r", "u", "e">>
      [] OTHER -> <<s>>

Text(cs) == CHOOSE s \in Texts \cup Pieces : Chars(s) = cs

\* str.split(','), on characters.
RECURSIVE split(_)
split(cs) ==
    IF \A i \in 1..Len(cs) : cs[i] # ","
    THEN <<cs>>
    ELSE LET i == CHOOSE j \in 1..Len(cs) :
                      cs[j] = "," /\ \A k \in 1..(j - 1) : cs[k] # ","
         IN  <<SubSeq(cs, 1, i - 1)>> \o split(SubSeq(cs, i + 1, Len(cs)))

\* str.strip(), on characters.
RECURSIVE strip(_)
strip(cs) ==
    IF cs = <<>> THEN cs
    ELSE IF cs[1] = " " THEN strip(Tail(cs))
    ELSE IF cs[Len(cs)] = " " THEN strip(SubSeq(cs, 1, Len(cs) - 1))
    ELSE cs

\* str.lower().
lower(s) == IF s = "True" THEN "true" ELSE s

\* json.loads of a text.
json_loads(s) ==
    CASE s = "12" -> Ok(IntV(12))
      [] s = "[1, 2]" -> Ok(ListV(<<IntV(1), IntV(2)>>))
      [] s = "{\"a\": 1}" -> Ok([t |-> "dict", a |-> IntV(1)])
      [] OTHER -> Raise("JSONDecodeError")

\* int(value).
py_int(value) ==
    CASE value.t = "int" -> Ok(value)
      [] value.t = "float" -> IF value = Infinity THEN Raise("OverflowError")
                              ELSE Ok(IntV(value.tenths \div 10))
      [] value.t = "bool" -> Ok(IntV(IF value.v THEN 1 ELSE 0))
      [] value.t = "str" -> IF value.v = "12" THEN Ok(IntV(12)) ELSE Raise("ValueError")
      [] OTHER -> Raise("TypeError")

\* float(value).
py_float(value) ==
    CASE value.t = "int" -> IF value = HugeInt THEN Raise("OverflowError")
                            ELSE Ok(FloatV(10 * value.v))
      [] value.t = "float" -> Ok(value)
      [] value.t = "bool" -> Ok(FloatV(IF value.v THEN 10 ELSE 0))
      [] value.t = "str" -> IF value.v = "12" THEN Ok(FloatV(120)) ELSE Raise("ValueError")
      [] OTHER -> Raise("TypeError")

\* bool(value).
py_bool(value) ==
    CASE value.t = "int" -> value = HugeInt \/ value.v # 0
      [] value.t = "float" -> value = Infinity \/ value.tenths # 0
      [] value.t = "bool" -> value.v
      [] value.t = "list" -> value.v # <<>>
      [] value.t = "dict" -> DOMAIN value # {"t"}
      [] OTHER -> value.v # ""

\* str(value).
py_str(value) ==
    CASE value.t = "str" -> value
      [] value = IntV(3) -> StrV("3")
      [] value = HugeInt -> StrV("1000...0")
      [] value = FloatV(15) -> StrV("1.5")
      [] value = Infinity -> StrV("inf")
      [] value = BoolV(TRUE) -> StrV("True")
      [] value = ListV(<<StrV("x")>>) -> StrV("['x']")
      [] OTHER -> StrV("{'a': 1}")

\* _convert_to_bool.
convert_to_bool(value) ==
    IF value.t = "str" THEN BoolV(lower(value.v) \in {"true", "1", "yes"})
    ELSE BoolV(py_bool(value))

\* _convert_to_list.
convert_to_list(value) ==
    IF value.t = "str"
    THEN LET parsed == json_loads(value.v)
             items == split(Chars(value.v))
         IN  IF parsed.ok THEN parsed
             ELSE Ok(ListV([i \in 1..Len(items) |-> StrV(Text(strip(items[i])))]))
    ELSE IF value.t = "list" THEN Ok(value)
    ELSE Ok(ListV(<<value>>))

\* _convert_to_dict.
convert_to_dict(value) ==
    IF value.t = "str" THEN json_loads(value.v)
    ELSE Ok(value)

\* The body of the try in _convert_single_parameter.
convert_by_type(param_value, param_type) ==
    IF param_value = None THEN Ok(None)
    ELSE CASE param_type = "int" -> py_int(param_value)
           [] param_type = "float" -> py_float(param_value)
           [] param_type = "bool" -> Ok(convert_to_bool(param_value))
           [] param_type = "list" -> convert_to_list(param_value)
           [] param_type = "dict" -> convert_to_dict(param_value)
           [] OTHER -> Ok(py_str(param_value))

\* except (ValueError, TypeError, json.JSONDecodeError).
Caught == {"ValueError", "TypeError", "JSONDecodeError"}

\* _convert_single_parameter: a caught exception gives the raw value back,
\* any other exception goes on to the caller.
convert_single_parameter(param_value, param_type) ==
    LET r == convert_by_type(param_value, param_type)
    IN  IF r.ok THEN r
        ELSE IF r.exc \in Caught THEN Ok(param_value)
        ELSE r

\* _convert_parameter_types: the converted args, or the exception that a
\* conversion let through.
convert_parameter_types(args, method_spec) ==
    LET parameters_spec == Get(method_spec, "parameters", <<>>)
        each(k) == IF k \notin DOMAIN parameters_spec THEN Ok(args[k])
                   ELSE convert_single_parameter(
                            args[k], Get(parameters_spec[k], "type", "str"))
        failing == {k \in DOMAIN args : ~each(k).ok}
    IN  IF failing # {}
        THEN [raised |-> TRUE, exc |-> each(CHOOSE k \in failing : TRUE).exc]
        ELSE [raised |-> FALSE, value |-> [k \in DOMAIN args |-> each(k).v]]

\* The calls looked at: args over the parameter names, with values of every
\* JSON type, against method specs that declare any of the names.
ParamNames == {"p", "q"}

RawValues ==
    {None, IntV(3), HugeInt, FloatV(15), Infinity, BoolV(TRUE),
     ListV(<<StrV("x")>>), [t |-> "dict", a |-> IntV(1)]}
    \cup {StrV(s) : s \in Texts}

TypeTags == {"int", "float", "bool", "list", "dict", "str"}

ParamDecls == {[type |-> tag] : tag \in TypeTags} \cup {[description |-> "d"]}

RawArgs == UNION {[S -> RawValues] : S \in SUBSET ParamNames}

MethodSpecs ==
    {[parameters |-> ps] : ps \in UNION {[S -> ParamDecls] : S \in SUBSET ParamNames}}
    \cup {[description |-> "d"]}

InitCoercion ==
    /\ mem = <<>>
    /\ clock = 0
    /\ stack = <<NewFrame("main", 1)>>
    /\ runs = 1
    /\ coercion \in {[args |-> a, method_spec |-> m, out |-> None] :
                        a \in RawArgs, m \in MethodSpecs}

\* _execute_method up to the call of the capability.
ConvertArgs ==
    /\ coercion.out = None
    /\ coercion' = [coercion EXCEPT
                      !.out = convert_parameter_types(coercion.args, coercion.method_spec)]
    /\ UNCHANGED <<mem, clock, stack, runs>>

NextCoercion == ConvertArgs

CoercionSpec == InitCoercion /\ [][NextCoercion]_vars

(***************************************************************************)
(* Properties.                                                             *)
(***************************************************************************)
Levels == 1..Depth

HasStop(d) == "stop" \in DOMAIN d /\ d.stop = TRUE

ActionOf(f) == Get(f.decision, "action", "None")

Dispatching == {"DECIDED", "EXECUTING", "BLOCKED", "RECORDED", "THROTTLE", "CRASHED"}

\* The step in which the top loop receives a decision with stop = true.
ReceivesStop ==
    /\ Top.pc = "AWAITING_DECISION"
    /\ Depth' = Depth
    /\ stack'[Depth].requests = Top.requests + 1
    /\ stack'[Depth].reply.kind = "value"
    /\ HasStop(stack'[Depth].reply.v)

\* A loop in the given state takes no further step of its own: its frame stays
\* as it is until its caller takes it off the stack, and the table stays too.
Ended(pc) ==
    \A l \in Levels :
        stack[l].pc = pc => /\ mem' = mem
                            /\ Depth' < l \/ stack'[l] = stack[l]

\* After the throttling delay the loop is back at AWAITING_DECISION.
ThrottleReturns ==
    Top.pc = "THROTTLE" => /\ Depth' = Depth
                           /\ stack'[Depth].pc = "AWAITING_DECISION"
                           /\ stack'[Depth].state = Top.state

\* C1: a decision with stop = true, whatever its action and args, is never
\* dispatched: receiving it changes no row and invokes nothing, the loop goes
\* from AWAITING_DECISION to STOPPED, no stop decision is ever saved, and a
\* stopped loop takes no further step.
C1_StopExecutesNothing ==
    /\ [](/\ \A l \in Levels :
               /\ stack[l].pc \in Dispatching => ~HasStop(stack[l].decision)
               /\ stack[l].pc = "STOPPED" => HasStop(stack[l].decision)
          /\ \A i \in 1..Len(mem) : ~HasStop(mem[i].value))
    /\ [][ReceivesStop => mem' = mem /\ stack'[Depth].pc = "STOPPED"]_vars
    /\ [][Ended("STOPPED")]_vars

C1_Witness ==
    /\ Top.pc = "STOPPED"
    /\ ActionOf(Top) = "delegate_to_post_agent"
    /\ Top.decision.args = "{slug}"
    /\ Len(mem) >= 1

C3_RaisedFaultRecorded ==
    /\ [](\A l \in Levels :
            LET f == stack[l]
                err == [t |-> "dict", error |-> <<f.fault>>]
            IN  (f.pc \in {"RECORDED", "THROTTLE"} /\ f.fault # "")
                => /\ ActionOf(f) \in get_available_methods(f.agent)
                   /\ f.result = err
                   /\ f.pc = "THROTTLE" => /\ "result" \in DOMAIN mem[f.rec].value
                                           /\ mem[f.rec].value.result = err
                                           /\ f.state = err)
    /\ [][ThrottleReturns]_vars
    /\ [][\A l \in Levels :
            (stack[l].pc = "EXECUTING" /\ Depth' >= l /\ stack'[l].fault # "")
            => stack'[l].pc = "RECORDED"]_vars

C3_Witness ==
    /\ Top.pc = "AWAITING_DECISION"
    /\ Top.fault = "fault"
    /\ Top.state = [t |-> "dict", error |-> <<"fault">>]
    /\ mem[Top.rec].value.result = Top.state

\* C4: a reply that is no JSON object is never taken as a decision: the loop
\* fails, issues one raw-text request with the same prompt and shows the text
\* it gets, and afterwards asks for no decision, appends no row and executes
\* nothing.
C4_NonObjectReplyIsFatal ==
    /\ [](/\ \A l \in Levels :
               LET f == stack[l]
               IN  /\ f.decision \notin NonDictValues
                   /\ (f.reply # None /\ f.reply.kind = "value" /\ f.reply.v \in NonDictValues)
                      => /\ f.pc = "FAILED"
                         /\ f.raw_requests = 1
                         /\ f.raw_prompt = f.prompt
                         /\ f.raw_reply = "text" => f.raw_surfaced
                   /\ f.pc # "FAILED" => f.raw_requests = 0
          /\ \A i \in 1..Len(mem) : mem[i].value \notin NonDictValues)
    /\ [][Ended("FAILED")]_vars

C4_Witness ==
    /\ Top.pc = "FAILED"
    /\ Top.reply = [kind |-> "value", v |-> [t |-> "list"]]
    /\ Top.raw_surfaced
    /\ Top.rec # 0

\* C5: a loop leaves its cycle only by STOPPED or FAILED: no fault of an
\* iteration escapes the loop.
C5_OnlyStopOrFailureEndsLoop == \A l \in Levels : stack[l].pc # "CRASHED"

\* The ids of the rows a run appended, oldest first.
RECURSIVE Ascending(_)
Ascending(S) ==
    IF S = {} THEN <<>>
    ELSE LET least == CHOOSE i \in S : \A j \in S : i <= j
         IN  <<least>> \o Ascending(S \ {least})

RowsOfRun(run) == Ascending({i \in 1..Len(mem) : mem[i].run = run})

WithoutResult(v) == [k \in DOMAIN v \ {"result"} |-> v[k]]

\* C6: a run in which the oracle gave n decisions without stop and then one
\* with stop has appended exactly n rows, one per decision and in the order of
\* the decisions, each updated once, and has asked the oracle n + 1 times.
C6_OneRowPerDecision ==
    \A l \in Levels :
        LET f == stack[l]
            rows == RowsOfRun(f.run)
        IN  f.pc = "STOPPED"
            => /\ Len(rows) = Len(f.decided)
               /\ f.requests = Len(f.decided) + 1
               /\ \A k \in 1..Len(rows) :
                    /\ WithoutResult(mem[rows[k]].value) = f.decided[k]
                    /\ mem[rows[k]].updates = 1

C6_Witness ==
    /\ Top.pc = "STOPPED"
    /\ Depth = 1
    /\ Len(Top.decided) = 2
    /\ Get(Top.decided[1], "action", "None") = "get_top_bounce_urls"
    /\ Len(RowsOfRun(Top.run)) = 2

\* The loop that appended row i is still between its append and its update.
InProgress(i) ==
    \E l \in Levels : stack[l].rec = i /\ stack[l].pc \in {"EXECUTING", "BLOCKED", "RECORDED"}

\* A row is created without result and before its action is looked up or
\* called, is not updated while its action runs, and is never updated twice.
CreatedPendingUpdatedAtMostOnce ==
    \A i \in 1..Len(mem) :
        /\ mem[i].updates <= 1
        /\ mem[i].updates = 0 <=> "result" \notin DOMAIN mem[i].value
        /\ InProgress(i) => mem[i].updates = 0
        /\ (\E l \in Levels : stack[l].rec = i /\ stack[l].pc = "EXECUTING")
           => mem[i].invoked = 0

\* C7: every row is created without result before its action is looked up or
\* called, and is updated exactly once, after the execution: a row is pending
\* while its loop is between append and update, and has one update from then on.
C7_UpdatedExactlyOnce ==
    /\ CreatedPendingUpdatedAtMostOnce
    /\ \A i \in 1..Len(mem) : ~InProgress(i) => mem[i].updates = 1

Scopes == {AGENT_TYPE(agent) : agent \in Agents}

\* list(scope).
ListScope(m, scope) == order_by_created_at(m, filter_agent_type(m, scope))

StrictlyIncreasing(m, ids) ==
    \A i, j \in 1..Len(ids) : i < j => m[ids[i]].created_at < m[ids[j]].created_at

IsPrefix(a, b) == Len(a) <= Len(b) /\ \A i \in 1..Len(a) : a[i] = b[i]

\* C8: a scope is append-only and ordered by creation time: list(scope) holds
\* the rows of the scope in strictly increasing created_at, whatever is
\* appended to other scopes in between, every later list extends every
\* earlier one, and no step removes a row or changes its scope, its creation
\* time or its decision.
C8_ScopeAppendOnlyOrdered ==
    /\ [](/\ \A s \in Scopes :
               LET ids == ListScope(mem, s)
               IN  /\ StrictlyIncreasing(mem, ids)
                   /\ {ids[k] : k \in 1..Len(ids)} = {i \in 1..Len(mem) : mem[i].agent_type = s}
          /\ \A a \in SubAgents : get_previous_memories(mem, a) = ListScope(mem, AGENT_TYPE(a)))
    /\ [][/\ Len(mem') >= Len(mem)
          /\ \A s \in Scopes : IsPrefix(ListScope(mem, s), ListScope(mem', s))
          /\ \A i \in 1..Len(mem) :
               /\ mem'[i].id = mem[i].id
               /\ mem'[i].agent_type = mem[i].agent_type
               /\ mem'[i].created_at = mem[i].created_at
               /\ WithoutResult(mem'[i].value) = WithoutResult(mem[i].value)]_vars

C8_Witness ==
    /\ Len(mem) = 3
    /\ mem[1].agent_type = DefaultAgentType
    /\ mem[2].agent_type = "post"
    /\ mem[3].agent_type = DefaultAgentType
    /\ ListScope(mem, DefaultAgentType) = <<1, 3>>
    /\ mem[1].updates = 1

\* C9: the memory entries in the prompt of a loop are exactly the rows of the
\* loop's own scope at the time the prompt is rendered.
C9_PromptReadsOwnScopeOnly ==
    [][(Top.pc = "AWAITING_DECISION" /\ Depth' = Depth /\ stack'[Depth].requests # Top.requests)
       => LET f == stack'[Depth]
          IN  /\ {f.prev[k] : k \in 1..Len(f.prev)}
                   = {i \in 1..Len(mem) : mem[i].agent_type = AGENT_TYPE(Top.agent)}
              /\ Len(f.prompt.memory) = Len(f.prev)]_vars

\* C10: every row carries the scope of the loop that appended it, the row a
\* loop holds for its update is one it appended itself, a step writes only
\* rows of the running loop's scope, and a parent and the sub-loop it waits
\* for have different scopes.
C10_NestedLoopsWriteOwnScope ==
    /\ [](/\ \A i \in 1..Len(mem) : mem[i].agent_type = AGENT_TYPE(mem[i].by)
          /\ \A l \in Levels :
               stack[l].rec # 0 => /\ mem[stack[l].rec].by = stack[l].agent
                                   /\ mem[stack[l].rec].run = stack[l].run
          /\ \A l, k \in Levels :
               l # k => AGENT_TYPE(stack[l].agent) # AGENT_TYPE(stack[k].agent))
    /\ [][\A i \in 1..Len(mem') :
            (i > Len(mem) \/ mem'[i] # mem[i])
            => mem'[i].agent_type = AGENT_TYPE(Top.agent)]_vars

C10_Witness ==
    /\ Depth = 2
    /\ Top.pc = "THROTTLE"
    /\ mem[Top.rec].agent_type = "post"
    /\ mem[Top.rec].updates = 1
    /\ mem[stack[1].rec].agent_type = DefaultAgentType
    /\ mem[stack[1].rec].updates = 0

\* While the loop at level l waits for a sub-loop that has not yet ended in
\* one of the given states, a step leaves the waiting loop's frame as it is
\* (no request, no other action), keeps the sub-loop on the stack, and
\* appends or updates no row of the waiting loop's run.
ParentFrozenUntil(ends) ==
    \A l \in 1..(Depth - 1) :
        stack[l + 1].pc \notin ends
        => /\ Depth' > l
           /\ stack'[l] = stack[l]
           /\ \A i \in 1..Len(mem') :
                (i > Len(mem) \/ mem'[i] # mem[i]) => mem'[i].run # stack[l].run

\* Only the innermost loop of a delegation chain is not waiting.
OnlyInnermostRuns == \A l \in Levels : stack[l].pc = "BLOCKED" <=> l < Depth

\* C11: delegation is synchronous: from the call of a delegation action until
\* the sub-loop is STOPPED or FAILED the parent asks the oracle nothing,
\* appends and updates no row and executes nothing, and only the innermost
\* loop of a chain takes steps.
C11_DelegationSynchronous ==
    /\ []OnlyInnermostRuns
    /\ [][ParentFrozenUntil({"STOPPED", "FAILED"})]_vars

\* The same with a sub-loop that an escaping exception ended counted as over.
FrozenUntilSubLoopOver ==
    /\ []OnlyInnermostRuns
    /\ [][ParentFrozenUntil(Terminal)]_vars

\* The summary of a completed sub-loop: the value of the row of its scope
\* created last when the scope holds a row, the completion marker otherwise.
ExpectedSummary(agent) ==
    LET rows == {i \in 1..Len(mem) : mem[i].agent_type = AGENT_TYPE(agent)}
    IN  IF rows # {}
        THEN LET last == CHOOSE i \in rows :
                            \A j \in rows : mem[j].created_at <= mem[i].created_at
             IN  [t |-> "dict", success |-> TRUE, agent |-> AGENT_NAME(agent),
                  last_action |-> mem[last].value]
        ELSE [t |-> "dict", success |-> TRUE, agent |-> AGENT_NAME(agent),
              message |-> "Completato senza memoria finale"]

\* The step in which a sub-loop that is STOPPED or FAILED hands over to its parent.
SubLoopCompletes == Depth > 1 /\ Depth' = Depth - 1 /\ Top.pc \in {"STOPPED", "FAILED"}

\* C12: when a delegated sub-loop completes, the delegation action returns
\* the summary (newest row of the sub-scope, or the completion marker when the
\* scope is empty), and what the delegation action returned becomes the
\* result of the parent's row of the delegation decision and the parent's state.
C12_SummaryBecomesParentResult ==
    /\ [][SubLoopCompletes
          => /\ stack'[Depth'].pc = "RECORDED"
             /\ stack'[Depth'].rec = stack[Depth'].rec
             /\ Delegate(ActionOf(stack'[Depth'])) = Top.agent
             /\ stack'[Depth'].result = ExpectedSummary(Top.agent)]_vars
    /\ [](\A l \in Levels :
            LET f == stack[l]
            IN  (f.pc = "THROTTLE" /\ Delegate(ActionOf(f)) # "none")
                => /\ "result" \in DOMAIN mem[f.rec].value
                   /\ mem[f.rec].value.result = f.result
                   /\ f.state = f.result)
    /\ [][\A l \in Levels :
            (/\ stack[l].pc = "RECORDED" /\ Depth' >= l /\ stack'[l].pc # "RECORDED"
             /\ Delegate(ActionOf(stack[l])) # "none")
            => stack'[l].pc = "THROTTLE" /\ stack'[l].result = stack[l].result]_vars

C12_Witness ==
    /\ Depth = 1
    /\ Top.pc = "AWAITING_DECISION"
    /\ Len(mem) = 3
    /\ Get(mem[1].value, "action", "None") = "delegate_to_post_agent"
    /\ "message" \in DOMAIN Get(mem[1].value, "result", None)
    /\ Get(mem[2].value, "action", "None") = "delegate_to_post_agent"
    /\ mem[3].agent_type = "post"
    /\ "last_action" \in DOMAIN Get(mem[2].value, "result", None)
    /\ mem[2].value.result.last_action = mem[3].value
    /\ Top.state = mem[2].value.result

\* The step that ends a decide call of the top loop.
DecideCallEnds ==
    /\ Top.pc = "AWAITING_DECISION"
    /\ Depth' = Depth
    /\ stack'[Depth].requests = Top.requests + 1

\* The step in which an attempt of the top loop's decide call fails and
\* another attempt follows.
AttemptRetried ==
    /\ Top.pc = "AWAITING_DECISION"
    /\ Depth' = Depth
    /\ stack'[Depth].attempts = Top.attempts + 1

\* A failure of the decide call that is no transport failure: an LLMException
\* of another cause, or a reply that is no JSON object.
NonTransportFailure(reply) ==
    \/ reply = [kind |-> "LLMException"]
    \/ reply.kind = "value" /\ reply.v \in NonDictValues

\* C13: on transport failures a decide call makes at most 3 attempts, one
\* right after the other (no delay, no other step in between); an attempt
\* that succeeds ends the call with its decision; a transport failure is
\* passed on only by the third attempt, and then the loop is FAILED.
C13_ThreeAttemptsThenFailed ==
    /\ [](\A l \in Levels :
            LET f == stack[l]
            IN  /\ f.attempts + 1 <= 3
                /\ f.attempts > 0 => f.pc = "AWAITING_DECISION" /\ f.caught = TransportFailure
                /\ f.reply = TransportFailure => f.pc = "FAILED")
    /\ [][AttemptRetried
          => /\ clock' = clock
             /\ mem' = mem
             /\ stack' = SetTop([Top EXCEPT !.attempts = @ + 1, !.caught = TransportFailure])]_vars
    /\ [][DecideCallEnds
          => LET f == stack'[Depth]
             IN  /\ clock' = clock
                 /\ f.reply = TransportFailure => Top.attempts + 1 = 3 /\ f.pc = "FAILED"
                 /\ (f.reply.kind = "value" /\ IsDict(f.reply.v))
                    => f.pc \in {"DECIDED", "STOPPED"} /\ f.decision = f.reply.v]_vars

C13_Witness ==
    /\ Depth = 2
    /\ Top.pc = "FAILED"
    /\ Top.reply = TransportFailure
    /\ Top.raw_requests = 1
    /\ Top.rec # 0

Converted == coercion.out # None

ParametersSpec == Get(coercion.method_spec, "parameters", <<>>)

\* The keys of the args that the method spec declares with the given tag.
DeclaredAs(tag) ==
    {k \in DOMAIN coercion.args :
        k \in DOMAIN ParametersSpec /\ Get(ParametersSpec[k], "type", "str") = tag}

JsonOfType(s, type) == json_loads(s).ok /\ json_loads(s).v.t = type

\* C15: a text that is no well-formed JSON object, given for a parameter
\* declared dict, makes the conversion of the args raise: the caller gets an
\* exception, not args that hold the raw text.
C15_MalformedMappingPropagates ==
    \A k \in DeclaredAs("dict") :
        (/\ Converted
         /\ coercion.args[k].t = "str"
         /\ ~JsonOfType(coercion.args[k].v, "dict"))
        => coercion.out.raised

\* What the conversion does with such a text: it is replaced by what
\* json.loads gives when it is JSON of another type, and kept as it is
\* otherwise; no exception reaches the caller on its account.
MalformedMappingSwallowed ==
    \A k \in DeclaredAs("dict") :
        (/\ Converted
         /\ ~coercion.out.raised
         /\ coercion.args[k].t = "str"
         /\ ~JsonOfType(coercion.args[k].v, "dict"))
        => coercion.out.value[k] = IF json_loads(coercion.args[k].v).ok
                                   THEN json_loads(coercion.args[k].v).v
                                   ELSE coercion.args[k]

\* The args as the per-key rule gives them: the raw value for a key that is
\* not declared or whose conversion raises, the converted value otherwise.
PerKeyConverted ==
    [k \in DOMAIN coercion.args |->
        IF k \notin DOMAIN ParametersSpec THEN coercion.args[k]
        ELSE LET r == convert_by_type(coercion.args[k],
                                      Get(ParametersSpec[k], "type", "str"))
             IN  IF r.ok THEN r.v ELSE coercion.args[k]]

\* C16: the conversion of the args never raises: whatever the args and the
\* method spec, it returns a mapping over exactly the keys of the args, with
\* the raw value for every key that is not declared or whose conversion
\* fails, and the converted value for every other key.
C16_CoercionNeverAborts ==
    Converted => /\ ~coercion.out.raised
                 /\ DOMAIN coercion.out.value = DOMAIN coercion.args
                 /\ coercion.out.value = PerKeyConverted

\* What holds instead: only an OverflowError gets through, and a call that
\* returns follows the per-key rule.
CoercionAbortsOnOverflowOnly ==
    Converted => IF coercion.out.raised
                 THEN coercion.out.exc = "OverflowError"
                 ELSE coercion.out.value = PerKeyConverted

\* split on commas, each element trimmed.
SplitTrimmed(s) ==
    LET items == split(Chars(s))
    IN  ListV([i \in 1..Len(items) |-> StrV(Text(strip(items[i])))])

\* The list a raw value becomes by the rule of the list tag.
AsList(v) ==
    CASE v.t = "list" -> v
      [] v.t = "str" -> IF JsonOfType(v.v, "list") THEN json_loads(v.v).v
                        ELSE SplitTrimmed(v.v)
      [] OTHER -> ListV(<<v>>)

\* C17: for a parameter declared list, a list is returned as it is, a text
\* becomes the JSON array it holds or else its comma-separated elements,
\* trimmed ("a, b, c" gives ["a", "b", "c"]), and a value v of any other type
\* becomes [v].
C17_ListCoercion ==
    \A k \in DeclaredAs("list") :
        (Converted /\ ~coercion.out.raised)
        => /\ coercion.out.value[k] = AsList(coercion.args[k])
           /\ coercion.args[k] = StrV("a, b, c")
              => coercion.out.value[k] = ListV(<<StrV("a"), StrV("b"), StrV("c")>>)

\* What holds instead: the rule is followed except for None, which stays
\* None, and for a text that is JSON of another type than array, which
\* becomes that JSON value.
ListCoercionButNoneAndOtherJson ==
    \A k \in DeclaredAs("list") :
        LET v == coercion.args[k]
        IN  (/\ Converted
             /\ ~coercion.out.raised
             /\ v # None
             /\ v.t = "str" => ~json_loads(v.v).ok \/ JsonOfType(v.v, "list"))
            => /\ coercion.out.value[k] = AsList(v)
               /\ v = StrV("a, b, c")
                  => coercion.out.value[k] = ListV(<<StrV("a"), StrV("b"), StrV("c")>>)

\* The entry of a prompt shows the key of a row's decision when the decision
\* has the key.
Shows(entry, row, key) == key \in DOMAIN row => entry[key] = row[key]

\* C18: a prompt has a memory section exactly when the memories handed to
\* the renderer are not empty; the section then lists the memories one entry
\* each, in the order of their creation, numbered from 1, with action, args
\* and reason; without memories there is no section at all, not an empty one.
C18_MemorySectionListsEveryRecord ==
    \A l \in Levels :
        LET f == stack[l]
        IN  f.prompt # None
            => /\ f.prompt.block <=> Len(f.prev) > 0
               /\ ~f.prompt.block => f.prompt.memory = <<>>
               /\ Len(f.prompt.memory) = Len(f.prev)
               /\ \A i \in 1..Len(f.prev) :
                    LET entry == f.prompt.memory[i]
                        row == mem[f.prev[i]].value
                    IN  /\ entry.idx = i
                        /\ Shows(entry, row, "action")
                        /\ Shows(entry, row, "args")
                        /\ Shows(entry, row, "reason")
               /\ \A i, j \in 1..Len(f.prev) :
                    i < j => /\ f.prev[i] # f.prev[j]
                             /\ mem[f.prev[i]].created_at <= mem[f.prev[j]].created_at

C18_Witness ==
    /\ Depth = 2
    /\ stack[1].prompt # None
    /\ ~stack[1].prompt.block
    /\ Top.prompt # None
    /\ Top.prompt.block
    /\ Len(Top.prompt.memory) = 2
    /\ Top.prompt.memory[2].idx = 2
    /\ Top.prompt.memory[1].action = "get_post_details"
    /\ Top.prompt.memory[2].action = "get_top_bounce_urls"

\* The step in which the top loop renders a prompt and ends its decide call.
RendersPrompt == DecideCallEnds

\* A result that records a failure: the error of an action that was not
\* found or of a capability that raised.
CapturedError(result) == IsDict(result) /\ "error" \in DOMAIN result

\* C19: every entry of a rendered prompt has one outcome: pending exactly
\* when the row has not been updated with a result yet, the error marker with
\* the message exactly when the row's result is a captured error, and the
\* success marker with the result otherwise.
C19_OutcomeMatchesRecord ==
    [][RendersPrompt
       => LET f == stack'[Depth]
          IN  \A i \in 1..Len(f.prev) :
                LET outcome == f.prompt.memory[i].outcome
                    row == mem[f.prev[i]]
                IN  /\ outcome.mark \in {"pending", "error", "success"}
                    /\ outcome.mark = "pending" <=> row.updates = 0
                    /\ outcome.mark = "error"
                       <=> row.updates > 0 /\ CapturedError(row.value.result)
                    /\ outcome.mark = "error" => outcome.text = row.value.result.error
                    /\ outcome.mark = "success" => outcome.text = row.value.result]_vars

\* What holds instead: the outcome follows the stored result alone, and a
\* row updated with the result None is shown as pending.
OutcomeFollowsStoredResult ==
    [][RendersPrompt
       => LET f == stack'[Depth]
          IN  \A i \in 1..Len(f.prev) :
                LET outcome == f.prompt.memory[i].outcome
                    result == Get(mem[f.prev[i]].value, "result", None)
                IN  /\ outcome.mark = "pending" <=> result = None
                    /\ outcome.mark = "error" <=> result # None /\ CapturedError(result)
                    /\ outcome.mark = "error" => outcome.text = result.error
                    /\ outcome.mark = "success" => outcome.text = result]_vars

\* The step in which the top loop stores the result of a registered
\* capability that returned normally.
RecordsReturn ==
    /\ Top.pc = "RECORDED"
    /\ Top.fault = ""
    /\ ActionOf(Top) \in method_dict(Top.agent)
    /\ Depth' = Depth
    /\ stack'[Depth].pc = "THROTTLE"

\* C20: when a registered capability returns normally with the value v, the
\* result written to the row is v and the loop's state becomes v: an error
\* result comes only from an action that is not found or a capability that
\* raises.
C20_ReturnedValueRecorded ==
    [][RecordsReturn
       => /\ mem'[Top.rec].value.result = Top.result
          /\ stack'[Depth].state = Top.result]_vars

\* What holds instead: the returned value is stored and becomes the state
\* when the JSON column can encode it; a model instance, as get_post_by_slug
\* returns it, is replaced by the error of the failed save.
EncodableReturnRecorded ==
    [][RecordsReturn
       => LET state == IF json_serializable(Top.result) THEN Top.result
                       ELSE RaisedError("TypeError")
          IN  /\ mem'[Top.rec].value.result = state
              /\ stack'[Depth].state = state]_vars

\* The rows appended by the loop instance of a frame.
OwnRows(f) == {i \in 1..Len(mem) : mem[i].run = f.run}

\* C21: the state of a loop is null when its first prompt is rendered; at
\* every later return to AWAITING_DECISION it is the result stored in the row
\* of the iteration just completed, a row of this loop instance and its
\* newest one, never a result of another loop instance; and the prompt shows
\* the state the loop has when it is rendered.
C21_StateIsLastResult ==
    /\ [](\A l \in Levels :
            LET f == stack[l]
            IN  f.pc = "AWAITING_DECISION"
                => IF OwnRows(f) = {}
                   THEN f.rec = 0 /\ f.state = None
                   ELSE /\ f.rec \in OwnRows(f)
                        /\ \A i \in OwnRows(f) : i <= f.rec
                        /\ mem[f.rec].by = f.agent
                        /\ mem[f.rec].updates > 0
                        /\ f.state = mem[f.rec].value.result)
    /\ [][DecideCallEnds
          => /\ stack'[Depth].prompt.state = Top.state
             /\ Top.requests = 0 => stack'[Depth].prompt.state = None]_vars

\* A sub-loop back at AWAITING_DECISION with the result of its own row as
\* state, under a parent that holds the result of an earlier iteration.
C21_Witness ==
    /\ Depth = 2
    /\ Top.pc = "AWAITING_DECISION"
    /\ Top.rec = 3
    /\ Top.state = [t |-> "value", v |-> "v"]
    /\ mem[3].value.result = Top.state
    /\ stack[1].pc = "BLOCKED"
    /\ stack[1].rec = 2
    /\ mem[1].run = 1
    /\ stack[1].state = mem[1].value.result
    /\ stack[1].state # Top.state

\* The position of the row of the iteration just completed in the list read
\* for the next prompt: after every earlier row of this loop instance.
LastIterationAt(f, p) ==
    /\ p \in 1..Len(f.prev)
    /\ f.prev[p] = f.rec
    /\ \A q \in 1..Len(f.prev) :
         (mem[f.prev[q]].run = f.run /\ q # p) => q < p

\* C22: the append of an iteration and its update are visible before the
\* next prompt is rendered: the prompt of iteration k+1 contains the row of
\* iteration k together with its result, after the rows of iterations 1..k-1.
C22_PromptShowsLastIteration ==
    [][(RendersPrompt /\ Top.rec # 0)
       => LET f == stack'[Depth]
          IN  \E p \in 1..Len(f.prev) :
                LET entry == f.prompt.memory[p]
                    row == mem[f.rec].value
                IN  /\ LastIterationAt(f, p)
                    /\ entry.idx = p
                    /\ entry.action = Get(row, "action", "N/A")
                    /\ entry.outcome.mark \in {"success", "error"}
                    /\ entry.outcome.mark = "success" => entry.outcome.text = row.result
                    /\ entry.outcome.mark = "error" => entry.outcome.text = row.result.error]_vars

\* What holds instead: the list read for the next prompt holds the row of the
\* iteration just completed with its stored result, after the earlier rows of
\* the loop, and the prompt renders that row; a stored result None is
\* rendered as pending.
AppendAndUpdateVisible ==
    [][(RendersPrompt /\ Top.rec # 0)
       => LET f == stack'[Depth]
          IN  \E p \in 1..Len(f.prev) :
                /\ LastIterationAt(f, p)
                /\ mem[f.rec].updates > 0
                /\ "result" \in DOMAIN mem[f.rec].value
                /\ mem[f.rec].value.result = Top.state
                /\ f.prompt.memory[p] = format_single_memory(p, mem[f.rec].value)]_vars

\* The step in which the top loop receives a decision that is a dict.
ReceivesDecision ==
    /\ DecideCallEnds
    /\ stack'[Depth].reply.kind = "value"
    /\ IsDict(stack'[Depth].reply.v)

\* C23: a decision with missing keys is handled by defaults and never as a
\* fatal failure: without stop the loop goes on to dispatch, without args the
\* empty mapping is taken, without reason the placeholder, and without action
\* the dispatch ends in the error result of an action that is not in the
\* registry, which is recorded, and the loop continues.
C23_MissingKeysDefaulted ==
    /\ [][ReceivesDecision
          => LET d == stack'[Depth].reply.v
                 f == stack'[Depth]
             IN  /\ f.pc \in {"STOPPED", "DECIDED"}
                 /\ "stop" \notin DOMAIN d => f.pc = "DECIDED"
                 /\ f.pc = "DECIDED"
                    => /\ f.decision = d
                       /\ "args" \notin DOMAIN d => f.details.args = "{}"
                       /\ "args" \in DOMAIN d => f.details.args = d.args
                       /\ "reason" \notin DOMAIN d => f.details.reason = "N/A"
                       /\ "reason" \in DOMAIN d => f.details.reason = d.reason]_vars
    /\ [](\A l \in Levels :
            LET f == stack[l]
            IN  (IsDict(f.decision) /\ "action" \notin DOMAIN f.decision)
                => /\ f.pc # "CRASHED"
                   /\ f.pc \in {"RECORDED", "THROTTLE"}
                      => f.result = NotFoundError("None") /\ f.fault = ""
                   /\ f.pc = "THROTTLE"
                      => /\ mem[f.rec].value.result = NotFoundError("None")
                         /\ f.state = NotFoundError("None"))
    /\ [][\A l \in Levels :
            (stack[l].pc = "THROTTLE" /\ Depth' >= l /\ stack'[l].pc # "THROTTLE")
            => stack'[l].pc = "AWAITING_DECISION"]_vars

\* A post sub-loop that has handled a decision with a reason only and then a
\* decision with an action only, and is back asking for the next one.
C23_Witness ==
    /\ Depth = 2
    /\ Top.agent = "post"
    /\ Top.pc = "AWAITING_DECISION"
    /\ Top.decided = <<[reason |-> "r"], [action |-> "get_post_details"]>>
    /\ Top.details = [action |-> "get_post_details", args |-> "{}", reason |-> "N/A"]
    /\ mem[Top.rec - 1].value.result = NotFoundError("None")
    /\ mem[Top.rec].value.result = [t |-> "value", v |-> "v"]
    /\ Top.state = mem[Top.rec].value.result

\* The step in which the top loop updates the row of its iteration.
UpdateStep ==
    /\ Top.pc = "RECORDED"
    /\ Depth' = Depth
    /\ stack'[Depth].pc = "THROTTLE"

\* C24: update(handle, result) changes the result of the one row the handle
\* names and nothing else: the decision of that row (action, args, reason,
\* stop), its scope and its creation time stay as they were, and so does
\* every other row of every scope.
C24_UpdateTouchesResultOnly ==
    [][UpdateStep
       => /\ Len(mem') = Len(mem)
          /\ \A i \in 1..Len(mem) :
               IF i = Top.rec
               THEN /\ DOMAIN mem'[i].value = DOMAIN mem[i].value \cup {"result"}
                    /\ \A k \in DOMAIN mem[i].value \ {"result"} :
                         mem'[i].value[k] = mem[i].value[k]
                    /\ mem'[i].value.result = stack'[Depth].result
                    /\ mem'[i].id = mem[i].id
                    /\ mem'[i].agent_type = mem[i].agent_type
                    /\ mem'[i].created_at = mem[i].created_at
               ELSE mem'[i] = mem[i]]_vars

\* A sub-loop that has just updated its row with a result, next to the
\* parent's delegation row, still without a result, and an older row.
C24_Witness ==
    /\ Depth = 2
    /\ Top.pc = "THROTTLE"
    /\ Top.rec = 3
    /\ mem[3].updates = 1
    /\ mem[3].value = [action |-> "get_post_details", args |-> "{slug}", reason |-> "r",
                       stop |-> FALSE, result |-> [t |-> "value", v |-> "v"]]
    /\ mem[2].updates = 0
    /\ "result" \notin DOMAIN mem[2].value
    /\ mem[1].updates = 1
    /\ mem[1].agent_type # mem[3].agent_type

\* C25: whenever a loop is at AWAITING_DECISION or has ended in STOPPED or
\* FAILED, every row appended by that loop run has been updated with a
\* result: a fatal oracle failure comes only before the append of an
\* iteration and leaves no row of the loop without its result.
C25_NoRowLeftPending ==
    /\ [](\A l \in Levels :
            LET f == stack[l]
            IN  f.pc \in {"AWAITING_DECISION", "STOPPED", "FAILED"}
                => \A i \in OwnRows(f) :
                     mem[i].updates >= 1 /\ "result" \in DOMAIN mem[i].value)
    /\ [][\A l \in Levels :
            (Depth' >= l /\ stack'[l].pc = "FAILED" /\ stack[l].pc # "FAILED")
            => /\ stack[l].pc = "AWAITING_DECISION"
               /\ mem' = mem]_vars

\* A loop that failed in its third decide call, after two iterations whose
\* rows both carry their result.
C25_Witness ==
    /\ Depth = 1
    /\ Top.pc = "FAILED"
    /\ Top.requests = 3
    /\ OwnRows(Top) = {1, 2}
    /\ mem[1].updates = 1
    /\ mem[2].updates = 1

\* C26: a row that a delegation returns as its summary was appended by the
\* sub-loop run that just completed, and a sub-loop that stops or fails
\* before it appends any row returns the completion marker, whatever rows
\* earlier runs of the same delegate left in its scope.
C26_SummaryFromThisRun ==
    [][SubLoopCompletes
       => LET summary == stack'[Depth'].result
          IN  IF OwnRows(Top) = {}
              THEN "message" \in DOMAIN summary /\ "last_action" \notin DOMAIN summary
              ELSE /\ "last_action" \in DOMAIN summary
                   /\ \E i \in OwnRows(Top) : summary.last_action = mem[i].value]_vars

\* What happens instead: the second delegation to the post sub-agent ends
\* without a row of its own and returns the row of the first one.
StaleSummaryReturned ==
    /\ Depth = 1
    /\ Top.pc = "THROTTLE"
    /\ runs = 3
    /\ Len(mem) = 3
    /\ mem[2].run = 2 /\ mem[2].updates = 1
    /\ Get(mem[1].value, "action", "None") = "delegate_to_post_agent"
    /\ Get(mem[3].value, "action", "None") = "delegate_to_post_agent"
    /\ \A i \in 1..Len(mem) : mem[i].run # 3
    /\ "last_action" \in DOMAIN mem[3].value.result
    /\ mem[3].value.result.last_action = mem[2].value

\* The step in which a sub-loop that ended in FAILED hands over to its parent.
FailedSubLoopReturns == Depth > 1 /\ Depth' = Depth - 1 /\ Top.pc = "FAILED"

\* C27: a sub-loop that ends in FAILED does not fail its delegation: the
\* delegation returns normally with a summary marked success = true, of the
\* shape it has after STOPPED, and the parent records it as a result that is
\* no error and continues.
C27_FailedSubLoopIsSuccess ==
    /\ [][FailedSubLoopReturns
          => LET parent == stack'[Depth']
             IN  /\ parent.pc = "RECORDED"
                 /\ parent.fault = ""
                 /\ parent.result.success = TRUE
                 /\ "error" \notin DOMAIN parent.result
                 /\ parent.result = ExpectedSummary(Top.agent)]_vars
    /\ [](\A l \in Levels :
            LET f == stack[l]
            IN  (f.pc = "THROTTLE" /\ f.sub_end = "FAILED")
                => /\ mem[f.rec].value.result = f.result
                   /\ f.state = f.result
                   /\ f.result.success = TRUE
                   /\ format_memory_result(f.result) = [mark |-> "success", text |-> f.result])
    /\ [][\A l \in Levels :
            (stack[l].sub_end = "FAILED" /\ Depth' >= l /\ stack'[l].pc # stack[l].pc)
            => \/ stack[l].pc = "RECORDED" /\ stack'[l].pc = "THROTTLE"
               \/ stack[l].pc = "THROTTLE" /\ stack'[l].pc = "AWAITING_DECISION"]_vars

\* A parent that has recorded the summary of a sub-loop that ended in FAILED
\* after one iteration of its own.
C27_Witness ==
    /\ Depth = 1
    /\ Top.pc = "THROTTLE"
    /\ Top.sub_end = "FAILED"
    /\ Len(mem) = 2
    /\ Get(mem[1].value, "action", "None") = "delegate_to_tutorial_agent"
    /\ mem[2].by = "tutorial"
    /\ mem[1].value.result.success = TRUE
    /\ "last_action" \in DOMAIN mem[1].value.result
    /\ mem[1].value.result.last_action = mem[2].value

\* The step in which a sub-loop that a fault has ended hands over to its parent.
CrashedSubLoopReturns == Depth > 1 /\ Depth' = Depth - 1 /\ Top.pc = "CRASHED"

\* A delegation result that reports a fault.
DelegationFailed(result) ==
    IsDict(result) /\ "success" \in DOMAIN result /\ result.success = FALSE

StopOrFatalReply(f) ==
    /\ f.reply # None
    /\ \/ f.reply.kind = "LLMException"
       \/ f.reply.kind = "value" /\ ~IsDict(f.reply.v)
       \/ f.reply.kind = "value" /\ IsDict(f.reply.v) /\ HasStop(f.reply.v)

\* A step of the top loop from AWAITING_DECISION into a new iteration.
StartsIteration ==
    /\ Top.pc = "AWAITING_DECISION"
    /\ Depth' = Depth
    /\ stack'[Depth].pc = "DECIDED"
    /\ stack'[Depth].requests = Top.requests + 1

\* C29: with every call returning, a loop whose oracle answers stop = true
\* or fails for good reaches STOPPED or FAILED, and a parent blocked on a
\* delegation whose sub-loop has ended in STOPPED or FAILED gets back to
\* AWAITING_DECISION; the loop has no bound on its iterations of its own: as
\* long as the table takes another row, a loop at AWAITING_DECISION can go
\* into one more iteration.
C29_LoopsTerminateWhenOracleEnds ==
    /\ \A l \in 1..2 :
         (l \in Levels /\ StopOrFatalReply(stack[l]))
            ~> (l \in Levels /\ stack[l].pc \in {"STOPPED", "FAILED"})
    /\ (Depth = 2 /\ stack[1].pc = "BLOCKED" /\ Top.pc \in {"STOPPED", "FAILED"})
          ~> (Depth = 1 /\ Top.pc = "AWAITING_DECISION")
    /\ []((Top.pc = "AWAITING_DECISION" /\ Len(mem) < MaxFairMem)
             => ENABLED <<FairNext /\ StartsIteration>>_vars)

\* A main loop that stopped in its second decide call, after a delegation
\* whose sub-loop ran one iteration, ended and gave its summary back.
C29_Witness ==
    /\ Depth = 1
    /\ Top.pc = "STOPPED"
    /\ Top.requests = 2
    /\ Len(mem) = 2
    /\ Get(mem[1].value, "action", "None") = "delegate_to_post_agent"
    /\ mem[2].by = "post"
    /\ mem[1].updates = 1 /\ mem[2].updates = 1
    /\ "last_action" \in DOMAIN mem[1].value.result

\* C30: for a parameter declared list, every raw value that is not None
\* comes out of the conversion as a list: a text that is JSON of another
\* type than array (a number, a string, an object) too.
C30_ListTagYieldsSequence ==
    \A k \in DeclaredAs("list") :
        (Converted /\ ~coercion.out.raised /\ coercion.args[k] # None)
        => coercion.out.value[k].t = "list"

\* What holds instead: the value comes out as a list unless it is a text
\* that is JSON of another type than array, which comes out as the value
\* json.loads gives.
ListTagYieldsSequenceButOtherJson ==
    \A k \in DeclaredAs("list") :
        LET v == coercion.args[k]
        IN  (Converted /\ ~coercion.out.raised /\ v # None)
            => IF v.t = "str" /\ json_loads(v.v).ok /\ ~JsonOfType(v.v, "list")
               THEN /\ coercion.out.value[k] = json_loads(v.v).v
                    /\ coercion.out.value[k].t # "list"
               ELSE coercion.out.value[k].t = "list"

====
